---- MODULE Spec2Model ----
(***************************************************************************)
(* Model of the Hugging Face -> Discord webhook relay (src/src/index.ts).  *)
(*                                                                         *)
(* Text is modelled as JavaScript strings are: sequences of UTF-16 code    *)
(* units (natural numbers).  Numbers are modelled as IEEE-754 doubles      *)
(* (53-bit mantissa, binary exponent) over bit sequences, because the      *)
(* code divides with `n /= 1000` in floating point.                        *)
(***************************************************************************)
EXTENDS Integers, Sequences, FiniteSets, TLC

(***************************************************************************)
(* Characters and strings                                                  *)
(***************************************************************************)

\* The printable ASCII characters in code order, U+0020 .. U+007E (the grave
\* accent, U+0060, is a placeholder: it cannot be written in a string here).
Printable ==
  << " ", "!", "\"", "#", "$", "%", "&", "'", "(", ")", "*", "+", ",", "-", ".", "/",
     "0", "1", "2", "3", "4", "5", "6", "7", "8", "9", ":", ";", "<", "=", ">", "?",
     "@", "A", "B", "C", "D", "E", "F", "G", "H", "I", "J", "K", "L", "M", "N", "O",
     "P", "Q", "R", "S", "T", "U", "V", "W", "X", "Y", "Z", "[", "\\", "]", "^", "_",
     "<grave>", "a", "b", "c", "d", "e", "f", "g", "h", "i", "j", "k", "l", "m", "n", "o",
     "p", "q", "r", "s", "t", "u", "v", "w", "x", "y", "z", "{", "|", "}", "~" >>

\* Code unit of a printable character, plus the escapes "\n" and "\t".
OrdTable ==
  [c \in {Printable[i] : i \in 1..95} |-> 31 + (CHOOSE i \in 1..95 : Printable[i] = c)]
    @@ ("\n" :> 10) @@ ("\t" :> 9)

Ord(c) == OrdTable[c]

\* A string literal, written as a tuple of one-character strings.
Str(cs) == [i \in 1..Len(cs) |-> Ord(cs[i])]

\* The least i in lo..hi with P(i), or a value above hi when there is none; the
\* greatest, or a value below lo when there is none.
FirstUp(lo, hi, P(_)) ==
  IF lo > hi THEN lo
  ELSE CHOOSE i \in lo..(hi + 1) : (i = hi + 1 \/ P(i)) /\ \A j \in lo..(i - 1) : ~P(j)
FirstDown(lo, hi, P(_)) ==
  LET k == FirstUp(0, hi - lo, LAMBDA d : P(hi - d)) IN hi - k

\* String.prototype.toLowerCase / toUpperCase on one code unit (ASCII letters;
\* the alphabets of the model hold no other cased letter).
LowerUnit(c) == IF c >= 65 /\ c <= 90 THEN c + 32 ELSE c
UpperUnit(c) == IF c >= 97 /\ c <= 122 THEN c - 32 ELSE c
toLowerCase(s) == [i \in 1..Len(s) |-> LowerUnit(s[i])]

\* String.prototype.includes: k occurs in s as a contiguous substring.
includes(s, k) ==
  \E i \in 0..(Len(s) - Len(k)) : \A j \in 1..Len(k) : s[i + j] = k[j]

\* String.prototype.slice(0, n).
slice0(s, n) == SubSeq(s, 1, IF Len(s) < n THEN Len(s) ELSE n)

\* ECMAScript WhiteSpace + LineTerminator: the class \s, and what trim() strips.
LineTerminators == {10, 13, 8232, 8233}
WhiteSpace ==
  {9, 10, 11, 12, 13, 32, 160, 5760, 8232, 8233, 8239, 8287, 12288, 65279}
    \cup (8192..8202)

\* String.prototype.trim.
trim(s) ==
  LET from == FirstUp(1, Len(s), LAMBDA i : s[i] \notin WhiteSpace)
      to == FirstDown(1, Len(s), LAMBDA i : s[i] \notin WhiteSpace)
  IN SubSeq(s, from, to)

(***************************************************************************)
(* Regular expressions, as the ECMAScript backtracking matcher runs them.  *)
(* A pattern is a sequence of nodes; every quantifier of the patterns used *)
(* by cleanMarkdown applies to a single-character class.                   *)
(***************************************************************************)

\* A character class [cs] or [^cs].
Class(cs) == [cs |-> cs, neg |-> FALSE]
NotClass(cs) == [cs |-> cs, neg |-> TRUE]
AnyChar == NotClass({})                    \* [\s\S]
Dot == NotClass(LineTerminators)           \* .
InClass(c, ch) == (ch \in c.cs) # c.neg

Node(t, cls, min, max, greedy, multiline, alts) ==
  [t |-> t, cls |-> cls, min |-> min, max |-> max, greedy |-> greedy,
   multiline |-> multiline, alts |-> alts]

\* A run of single characters, each from its class.
Chars(cls) == Node("chars", cls, 0, 0, TRUE, FALSE, <<>>)
\* c{min,max}, greedy and lazy; max = -1 stands for "no upper limit".
Rep(c, min, max) == Node("rep", <<c>>, min, max, TRUE, FALSE, <<>>)
Lazy(c, min, max) == Node("rep", <<c>>, min, max, FALSE, FALSE, <<>>)
Bol(multiline) == Node("bol", <<>>, 0, 0, TRUE, multiline, <<>>)   \* ^
Eol(multiline) == Node("eol", <<>>, 0, 0, TRUE, multiline, <<>>)   \* $
\* (a|b|...) followed by the rest of the pattern
Alt(alts) == Node("alt", <<>>, 0, 0, TRUE, FALSE, alts)

\* A literal, and a literal under the i flag (Canonicalize = toUpperCase).
Lit(cs) == << Chars([i \in 1..Len(cs) |-> Class({Ord(cs[i])})]) >>
LitI(cs) ==
  << Chars([i \in 1..Len(cs) |-> Class({LowerUnit(Ord(cs[i])), UpperUnit(Ord(cs[i]))})]) >>

\* Match pattern re against s starting at index i (1-based): the index just past
\* the match the backtracking matcher finds first, or 0 when there is none.
RECURSIVE Match(_, _, _)
Match(re, s, i) ==
  IF re = <<>> THEN i
  ELSE
    LET nd == Head(re)
        rest == Tail(re)
    IN CASE nd.t = "chars" ->
              IF i + Len(nd.cls) - 1 <= Len(s)
                 /\ \A k \in 1..Len(nd.cls) : InClass(nd.cls[k], s[i + k - 1])
              THEN Match(rest, s, i + Len(nd.cls)) ELSE 0
         [] nd.t = "rep" ->
              LET last == IF nd.max = -1 \/ i + nd.max - 1 > Len(s)
                          THEN Len(s) ELSE i + nd.max - 1
                  stop == FirstUp(i, last, LAMBDA t : ~InClass(nd.cls[1], s[t]))
                  j == IF nd.greedy
                       THEN FirstDown(i + nd.min, stop, LAMBDA p : Match(rest, s, p) # 0)
                       ELSE FirstUp(i + nd.min, stop, LAMBDA p : Match(rest, s, p) # 0)
              IN IF j < i + nd.min \/ j > stop THEN 0 ELSE Match(rest, s, j)
         [] nd.t = "bol" ->
              IF i = 1 \/ (nd.multiline /\ s[i - 1] \in LineTerminators)
              THEN Match(rest, s, i) ELSE 0
         [] nd.t = "eol" ->
              IF i = Len(s) + 1 \/ (nd.multiline /\ s[i] \in LineTerminators)
              THEN Match(rest, s, i) ELSE 0
         [] nd.t = "alt" ->
              LET a == FirstUp(1, Len(nd.alts), LAMBDA k : Match(nd.alts[k] \o rest, s, i) # 0)
              IN IF a > Len(nd.alts) THEN 0 ELSE Match(nd.alts[a] \o rest, s, i)

\* The matches String.prototype.replace visits: leftmost first, each search
\* resuming where the previous match ended; all of them under the g flag, the
\* first alone without it.  A sequence of <<start, end>> (end exclusive).  No
\* pattern of cleanMarkdown matches the empty string.
RECURSIVE MatchesFrom(_, _, _, _)
\* The match that starts at p and ends before e, and those after it.
MatchFound(re, s, p, e, global) ==
  IF global THEN << <<p, e>> >> \o MatchesFrom(re, s, e, global) ELSE << <<p, e>> >>
\* p: where the leftmost match at or after the starting index begins, if any.
MatchesAt(re, s, p, global) ==
  IF p > Len(s) THEN <<>> ELSE MatchFound(re, s, p, Match(re, s, p), global)
MatchesFrom(re, s, from, global) ==
  MatchesAt(re, s, FirstUp(from, Len(s), LAMBDA q : Match(re, s, q) # 0), global)

\* s with match ms[k] replaced by reps[k], for every k.
RECURSIVE Splice(_, _, _, _, _)
Splice(s, ms, reps, k, from) ==
  IF k > Len(ms) THEN SubSeq(s, from, Len(s))
  ELSE SubSeq(s, from, ms[k][1] - 1) \o reps[k] \o Splice(s, ms, reps, k + 1, ms[k][2])

(***************************************************************************)
(* cleanMarkdown (index.ts:97-142)                                         *)
(***************************************************************************)

\* A value that may be null (readme is `string | null`).
Null == [null |-> TRUE, str |-> <<>>]
Some(s) == [null |-> FALSE, str |-> s]

\* What a call that may throw produces.
Returned(s) == [ok |-> TRUE, str |-> s]
Thrown == [ok |-> FALSE, str |-> <<>>]

Ws == Class(WhiteSpace)                    \* \s
Digit == Class(48..57)                     \* \d
HexDigit == Class((48..57) \cup (97..102) \cup (65..70))   \* [\da-fA-F]

\* /^\uFEFF?---\s*[\s\S]*?\n---\s*\n?/
ReFrontmatter ==
  <<Bol(FALSE), Rep(Class({65279}), 0, 1)>> \o Lit(<<"-", "-", "-">>)
    \o <<Rep(Ws, 0, -1), Lazy(AnyChar, 0, -1)>> \o Lit(<<"\n", "-", "-", "-">>)
    \o <<Rep(Ws, 0, -1), Rep(Class({10}), 0, 1)>>

BlockTags ==
  << <<"d", "e", "t", "a", "i", "l", "s">>, <<"s", "u", "m", "m", "a", "r", "y">>,
     <<"d", "i", "v">>, <<"t", "a", "b", "l", "e">>, <<"t", "h", "e", "a", "d">>,
     <<"t", "b", "o", "d", "y">>, <<"t", "r">>, <<"t", "d">>, <<"t", "h">>,
     <<"s", "t", "y", "l", "e">>, <<"s", "c", "r", "i", "p", "t">>,
     <<"f", "o", "o", "t", "e", "r">>, <<"h", "e", "a", "d", "e", "r">>,
     <<"n", "a", "v">>, <<"s", "e", "c", "t", "i", "o", "n">>,
     <<"a", "s", "i", "d", "e">>, <<"f", "i", "g", "u", "r", "e">>,
     <<"f", "i", "g", "c", "a", "p", "t", "i", "o", "n">> >>

\* /<\s*(details|...|figcaption)[\s\S]*?<\/\s*\1\s*>/gi.  The group holds
\* literals only, so the backreference \1 is the alternative that matched: the
\* pattern is the alternation, in the group's order, of each tag with the rest
\* of the pattern closed by the same tag (letters compared under the i flag).
ReHtmlBlock ==
  Lit(<<"<">>) \o <<Rep(Ws, 0, -1)>>
    \o << Alt([k \in 1..Len(BlockTags) |->
                LitI(BlockTags[k]) \o <<Lazy(AnyChar, 0, -1)>> \o Lit(<<"<", "/">>)
                  \o <<Rep(Ws, 0, -1)>> \o LitI(BlockTags[k]) \o <<Rep(Ws, 0, -1)>>
                  \o Lit(<<">">>)]) >>

VoidTags ==
  << <<"i", "m", "g">>, <<"b", "r">>, <<"h", "r">>, <<"i", "n", "p", "u", "t">>,
     <<"m", "e", "t", "a">>, <<"l", "i", "n", "k">> >>

\* /<\s*(img|br|hr|input|meta|link)[^>]*>/gi
ReVoidTag ==
  Lit(<<"<">>) \o <<Rep(Ws, 0, -1)>>
    \o << Alt([k \in 1..Len(VoidTags) |-> LitI(VoidTags[k])]) >>
    \o <<Rep(NotClass({Ord(">")}), 0, -1)>> \o Lit(<<">">>)

\* /<\/?[^>]+>/g
ReAnyTag ==
  Lit(<<"<">>) \o <<Rep(Class({Ord("/")}), 0, 1), Rep(NotClass({Ord(">")}), 1, -1)>>
    \o Lit(<<">">>)

\* /^\s{0,3}#{1,6}\s+.*$/gm
ReAtxHeader ==
  <<Bol(TRUE), Rep(Ws, 0, 3), Rep(Class({Ord("#")}), 1, 6), Rep(Ws, 1, -1),
    Rep(Dot, 0, -1), Eol(TRUE)>>

\* /^\s*[-=]{3,}\s*$/gm
ReSetextUnderline ==
  <<Bol(TRUE), Rep(Ws, 0, -1), Rep(Class({Ord("-"), Ord("=")}), 3, -1), Rep(Ws, 0, -1),
    Eol(TRUE)>>

\* /!\[[^\]]*\]\([^)]*\)/g
ReImage ==
  Lit(<<"!", "[">>) \o <<Rep(NotClass({Ord("]")}), 0, -1)>> \o Lit(<<"]", "(">>)
    \o <<Rep(NotClass({Ord(")")}), 0, -1)>> \o Lit(<<")">>)

\* /^\s*\|.*\|\s*$/gm
ReTableRow ==
  <<Bol(TRUE), Rep(Ws, 0, -1)>> \o Lit(<<"|">>) \o <<Rep(Dot, 0, -1)>> \o Lit(<<"|">>)
    \o <<Rep(Ws, 0, -1), Eol(TRUE)>>

ReNbsp == Lit(<<"&", "n", "b", "s", "p", ";">>)      \* /&nbsp;/g
ReAmp == Lit(<<"&", "a", "m", "p", ";">>)            \* /&amp;/g
ReLt == Lit(<<"&", "l", "t", ";">>)                  \* /&lt;/g
ReGt == Lit(<<"&", "g", "t", ";">>)                  \* /&gt;/g
\* /&#x([\da-fA-F]+);/g and /&#(\d+);/g
ReHexEntity == Lit(<<"&", "#", "x">>) \o <<Rep(HexDigit, 1, -1)>> \o Lit(<<";">>)
ReDecEntity == Lit(<<"&", "#">>) \o <<Rep(Digit, 1, -1)>> \o Lit(<<";">>)
\* /[ \t]+\n/g and /\n{3,}/g
ReTrailingSpace == <<Rep(Class({32, 9}), 1, -1), Chars(<<Class({10})>>)>>
ReBlankLines == <<Rep(Class({10}), 3, -1)>>

\* The greatest code point, U+10FFFF; String.fromCodePoint throws a RangeError
\* above it.
MaxCodePoint == 1114111

DigitValue(c) ==
  IF c >= 48 /\ c <= 57 THEN c - 48 ELSE IF c >= 97 THEN c - 87 ELSE c - 55

\* parseInt(digits, radix), saturated just above MaxCodePoint (every larger
\* value, Infinity included, makes fromCodePoint throw alike).
RECURSIVE parseIntFrom(_, _, _, _)
parseIntFrom(ds, radix, k, acc) ==
  IF k > Len(ds) THEN acc
  ELSE LET v == acc * radix + DigitValue(ds[k])
       IN parseIntFrom(ds, radix, k + 1, IF v > MaxCodePoint THEN MaxCodePoint + 1 ELSE v)
parseInt(ds, radix) == parseIntFrom(ds, radix, 1, 0)

\* String.fromCodePoint(cp) for cp <= MaxCodePoint: one code unit, or a
\* surrogate pair above U+FFFF.
fromCodePoint(cp) ==
  IF cp <= 65535 THEN <<cp>>
  ELSE <<55296 + ((cp - 65536) \div 1024), 56320 + ((cp - 65536) % 1024)>>

\* One s = s.replace(re, with) of the function: the pattern, its g flag, and the
\* replacement: the constant string `with` when radix = 0, and otherwise the
\* callback (_, h) => String.fromCodePoint(parseInt(h, radix)), where the digits
\* h are the match without its `skip` leading characters and its final ";".
Step(re, global, with, skip, radix) ==
  [re |-> re, global |-> global, with |-> with, skip |-> skip, radix |-> radix]

\* The number of code units slice(0, 1021) keeps.
SliceEnd == 1021

Ellipsis == Str(<<".", ".", ".">>)

\* The replace calls of cleanMarkdown, in the order it makes them.
Steps ==
  << Step(ReFrontmatter, FALSE, <<>>, 0, 0),                \* 1) line 101
     Step(ReHtmlBlock, TRUE, <<>>, 0, 0),                   \* 2) line 105
     Step(ReVoidTag, TRUE, <<>>, 0, 0),                     \* 3) line 111
     Step(ReAnyTag, TRUE, <<>>, 0, 0),                      \* 4) line 114
     Step(ReAtxHeader, TRUE, <<>>, 0, 0),                   \* 5) line 117
     Step(ReSetextUnderline, TRUE, <<>>, 0, 0),             \*    line 118
     Step(ReImage, TRUE, <<>>, 0, 0),                       \* 8) line 121
     Step(ReTableRow, TRUE, <<>>, 0, 0),                    \* 9) line 124
     Step(ReNbsp, TRUE, Str(<<" ">>), 0, 0),                \* 10) line 128
     Step(ReAmp, TRUE, Str(<<"&">>), 0, 0),                 \*     line 129
     Step(ReLt, TRUE, Str(<<"<">>), 0, 0),                  \*     line 130
     Step(ReGt, TRUE, Str(<<">">>), 0, 0),                  \*     line 131
     Step(ReHexEntity, TRUE, <<>>, 3, 16),                  \*     line 132
     Step(ReDecEntity, TRUE, <<>>, 2, 10),                  \*     line 133
     Step(ReTrailingSpace, TRUE, Str(<<"\n">>), 0, 0),      \* 11) line 137
     Step(ReBlankLines, TRUE, Str(<<"\n", "\n">>), 0, 0) >> \*     line 138

\* s with the matches ms replaced as step says: Thrown when the callback throws.
replaceMatches(s, step, ms) ==
  LET cp(k) == parseInt(SubSeq(s, ms[k][1] + step.skip, ms[k][2] - 2), step.radix)
      reps == [k \in 1..Len(ms) |->
                 IF step.radix = 0 THEN step.with ELSE fromCodePoint(cp(k))]
  IN IF step.radix # 0 /\ \E k \in 1..Len(ms) : cp(k) > MaxCodePoint THEN Thrown
     ELSE Returned(Splice(s, ms, reps, 1, 1))

\* s.replace(step.re, ...)
replace(s, step) == replaceMatches(s, step, MatchesFrom(step.re, s, 1, step.global))

\* Steps k, k + 1, ... applied in turn to s, and to the outcome r of a step.
RECURSIVE replaceFrom(_, _)
replaceNext(r, k) == IF r.ok THEN replaceFrom(r.str, k) ELSE Thrown
replaceFrom(s, k) ==
  IF k > Len(Steps) THEN Returned(s) ELSE replaceNext(replace(s, Steps[k]), k + 1)

\* .trim() of what the steps before produced.
trimmed(r) == IF r.ok THEN Returned(trim(r.str)) ELSE Thrown

\* Two slips in the last line: the suffix appended only to a text that was cut
\* (ruled out by C5), and the cut made at the cap instead of three before it
\* (ruled out by C6).
slicedWhenLong(r) ==
  IF ~r.ok THEN Thrown
  ELSE IF Len(r.str) > SliceEnd THEN Returned(slice0(r.str, SliceEnd) \o Ellipsis)
  ELSE Returned(r.str)
slicedAtCap(r) ==
  IF r.ok THEN Returned(slice0(r.str, SliceEnd + Len(Ellipsis)) \o Ellipsis) ELSE Thrown

\* s.slice(0, 1021) + "..."
sliced(r) == IF r.ok THEN Returned(slice0(r.str, SliceEnd) \o Ellipsis) ELSE Thrown

\* Everything before the final slice: md || "", the replace calls, trim().
stripMarkdown(md) == trimmed(replaceFrom(IF md.null THEN <<>> ELSE md.str, 1))

cleanMarkdown(md) == sliced(stripMarkdown(md))

(***************************************************************************)
(* Numbers.  A natural number is its sequence of limbs in base Base, most  *)
(* significant first, without leading zeros (so 0 is <<>>); a JavaScript   *)
(* number n > 0 is the IEEE-754 double m * 2^e with 2^52 <= m < 2^53.      *)
(***************************************************************************)

Base == 2^13
LimbBits == CHOOSE k \in 1..30 : 2^k = Base

Norm(x) == SubSeq(x, FirstUp(1, Len(x), LAMBDA i : x[i] # 0), Len(x))
Limb(x, j) == IF j >= 1 /\ j <= Len(x) THEN x[j] ELSE 0
Zeros(n) == [i \in 1..n |-> 0]

\* x * 2^k and floor(x / 2^k).
Shl(x, k) ==
  LET b == k % LimbBits
  IN Norm([j \in 1..(Len(x) + 1) |->
             ((Limb(x, j - 1) * 2^b) % Base) + ((Limb(x, j) * 2^b) \div Base)]
          \o Zeros(IF x = <<>> THEN 0 ELSE k \div LimbBits))
Shr(x, k) ==
  LET b == k % LimbBits
      n == Len(x) - (k \div LimbBits)
  IN IF n <= 0 THEN <<>>
     ELSE Norm([j \in 1..n |-> ((Limb(x, j - 1) % 2^b) * 2^(LimbBits - b)) + (x[j] \div 2^b)])

BitLen(x) ==
  IF x = <<>> THEN 0
  ELSE (Len(x) - 1) * LimbBits + (CHOOSE k \in 1..LimbBits : 2^(k - 1) <= x[1] /\ x[1] < 2^k)
Odd(x) == x # <<>> /\ x[Len(x)] % 2 = 1
\* x + 1
Inc(x) ==
  LET k == FirstDown(1, Len(x), LAMBDA i : x[i] # Base - 1)
  IN IF k < 1 THEN <<1>> \o Zeros(Len(x))
     ELSE [i \in 1..Len(x) |-> IF i < k THEN x[i] ELSE IF i = k THEN x[i] + 1 ELSE 0]
\* x >= v, for 0 < v < Base
GeSmall(x, v) == Len(x) >= 2 \/ (Len(x) = 1 /\ x[1] >= v)

\* Quotient and remainder of x by a small d: schoolbook division, limb by limb.
RECURSIVE DivFrom(_, _, _, _, _)
DivFrom(x, d, k, r, q) ==
  IF k > Len(x) THEN [q |-> Norm(q), r |-> r]
  ELSE LET t == r * Base + x[k]
       IN DivFrom(x, d, k + 1, t % d, Append(q, t \div d))
DivMod(x, d) == DivFrom(x, d, 1, 0, <<>>)

\* x * c + a for small c and a: schoolbook multiplication from the last limb.
RECURSIVE MulFrom(_, _, _, _, _)
MulFrom(x, c, k, carry, acc) ==
  IF k = 0 THEN Norm(<<carry \div Base, carry % Base>> \o acc)
  ELSE LET t == x[k] * c + carry
       IN MulFrom(x, c, k - 1, t \div Base, <<t % Base>> \o acc)
MulAdd(x, c, a) == MulFrom(x, c, Len(x), a, <<>>)

\* The natural number written with the decimal digits ds, and back.
RECURSIVE FromDigits(_, _, _)
FromDigits(ds, k, acc) ==
  IF k > Len(ds) THEN acc ELSE FromDigits(ds, k + 1, MulAdd(acc, 10, ds[k]))
Decimal(ds) == FromDigits(ds, 1, <<>>)
RECURSIVE DigitsOf(_, _)
DigitsOf(x, acc) ==
  IF x = <<>> THEN acc
  ELSE LET dm == DivMod(x, 10) IN DigitsOf(dm.q, <<dm.r>> \o acc)
ToDigits(x) == IF x = <<>> THEN <<0>> ELSE DigitsOf(x, <<>>)

\* x * 1000^k
RECURSIVE TimesPow1000(_, _)
TimesPow1000(x, k) == IF k = 0 THEN x ELSE TimesPow1000(MulAdd(x, 1000, 0), k - 1)
\* floor(x / 1000^k), exactly
RECURSIVE DivPow1000(_, _)
DivPow1000(x, k) == IF k = 0 THEN x ELSE DivPow1000(DivMod(x, 1000).q, k - 1)

Zero == [m |-> <<>>, e |-> 0]

\* The double nearest to (N + f) * 2^e0, where 0 <= f < 1 and f > 0 iff sticky:
\* round to nearest, ties to even.  (When sticky, N has more than 54 bits.)
RoundToDouble(N, e0, sticky) ==
  LET L == BitLen(N)
      sh == L - 53
      m0 == Shr(N, sh)
      guard == Odd(Shr(N, sh - 1))
      rest == sticky \/ Shl(Shr(N, sh - 1), sh - 1) # N
      m1 == IF guard /\ (rest \/ Odd(m0)) THEN Inc(m0) ELSE m0
  IN IF L = 0 THEN Zero
     ELSE IF L <= 53 THEN [m |-> Shl(N, 53 - L), e |-> e0 - (53 - L)]
     ELSE IF BitLen(m1) > 53 THEN [m |-> Shr(m1, 1), e |-> e0 + sh + 1]
     ELSE [m |-> m1, e |-> e0 + sh]

\* The Number a JSON integer literal parses to.
ToNumber(x) == RoundToDouble(x, 0, FALSE)

\* n / 1000 in double arithmetic: m * 2^LimbBits / 1000 = q + r / 1000.
DivideBy1000(n) ==
  LET dm == DivMod(Shl(n.m, LimbBits), 1000)
  IN RoundToDouble(dm.q, n.e - LimbBits, dm.r # 0)

\* Math.floor(n) and Math.round(n) for n >= 0, as natural numbers; the value of
\* an integral double.
MathFloor(n) == IF n.e >= 0 THEN Shl(n.m, n.e) ELSE Shr(n.m, -n.e)
MathRound(n) ==
  IF n.e >= 0 THEN Shl(n.m, n.e)
  ELSE IF Odd(Shr(n.m, -n.e - 1)) THEN Inc(MathFloor(n)) ELSE MathFloor(n)
\* n >= 1000
AtLeast1000(n) == GeSmall(MathFloor(n), 1000)

\* `${value}` for an integer 0 <= value < 10^21: its decimal digits.
NumberToString(x) == LET ds == ToDigits(x) IN [i \in 1..Len(ds) |-> 48 + ds[i]]

(***************************************************************************)
(* abbreviateNumber (index.ts:79-95)                                       *)
(***************************************************************************)

units == <<"K", "M", "B", "T">>

\* The loop stopping one unit early, `unitIndex < units.length - 2`
\* (ruled out by C8).
RECURSIVE ReduceOneUnitShort(_, _)
ReduceOneUnitShort(n, unitIndex) ==
  IF AtLeast1000(n) /\ unitIndex < Len(units) - 1
  THEN ReduceOneUnitShort(DivideBy1000(n), unitIndex + 1)
  ELSE [n |-> n, unitIndex |-> unitIndex]

\* The while loop: state <<n, unitIndex>>, with unitIndex counted from 0 here
\* (0 is the -1 of the code, "no unit yet").
RECURSIVE Reduce(_, _)
Reduce(n, unitIndex) ==
  IF AtLeast1000(n) /\ unitIndex < Len(units)
  THEN Reduce(DivideBy1000(n), unitIndex + 1)
  ELSE [n |-> n, unitIndex |-> unitIndex]

abbreviateNumber(num, round) ==
  LET r == Reduce(num, 0)
      value == IF round = "round" THEN MathRound(r.n) ELSE MathFloor(r.n)
  IN IF r.unitIndex >= 1 THEN NumberToString(value) \o Str(<<units[r.unitIndex]>>)
     ELSE NumberToString(value)

(***************************************************************************)
(* JSON documents (the metadata response body after .json())               *)
(***************************************************************************)

JValue(kind, num, str, members) ==
  [kind |-> kind, num |-> num, str |-> str, members |-> members]
JNull == JValue("null", Zero, <<>>, <<>>)
JNumber(n) == JValue("number", n, <<>>, <<>>)
JString(s) == JValue("string", Zero, s, <<>>)
\* members: a function from property names to values
JObject(members) == JValue("object", Zero, <<>>, members)

\* `key in v` throws a TypeError unless v is an object.
InThrows(v) == v.kind # "object"
In(key, v) == key \in DOMAIN v.members

(***************************************************************************)
(* State                                                                   *)
(***************************************************************************)

VARIABLES
  secret,      \* env.HF_WEBHOOK_SECRET: Null (not set) or Some(string)
  pc,          \* where the handling of the current request stands
  request,     \* the request being handled
  status,      \* status of the Response returned for it; 0 while there is none
  calls,       \* the outbound fetch() calls issued for it, in order
  model_info,  \* sendToDiscord: the parsed metadata document
  readme,      \* sendToDiscord: the README text or null, once its response arrived
  posted,      \* the discordPayload POSTed to the webhook (NoPayload before)
  failed,      \* the catch block of fetch ran (console.error)
  md,          \* cleanMarkdown: the argument of the call under way
  cleaned,     \* cleanMarkdown: what the call produced (Pending before it ran)
  num,         \* abbreviateNumber: the arguments of the call under way
  round,
  abbreviated  \* abbreviateNumber: what the call returned (<<>> before it ran)

vars ==
  <<secret, pc, request, status, calls, model_info, readme, posted, failed, md, cleaned,
    num, round, abbreviated>>

handlerVars == <<secret, pc, request, status, calls, model_info, readme, posted, failed>>
cleanVars == <<md, cleaned>>
abbrevVars == <<num, round, abbreviated>>

Pending == [ok |-> FALSE, str |-> <<0>>]

NoRequest == [method |-> "", header |-> Null, body |-> [kind |-> "none"]]
NoPayload == [sent |-> FALSE]
NoReadme == [fetched |-> FALSE]

\* The values the variables of a component hold while it is not the one running.
HandlerIdle ==
  /\ secret = Null /\ pc = "idle" /\ request = NoRequest /\ status = 0 /\ calls = <<>>
  /\ model_info = JNull /\ readme = NoReadme /\ posted = NoPayload /\ failed = FALSE
CleanIdle == md = Null /\ cleaned = Pending
AbbrevIdle == num = Zero /\ round = "floor" /\ abbreviated = <<>>

(***************************************************************************)
(* The worker: fetch (index.ts:46-76) and sendToDiscord (index.ts:145-214) *)
(***************************************************************************)

DENYLIST ==
  << Str(<<"g", "g", "u", "f">>), Str(<<"g", "p", "t", "q">>), Str(<<"a", "w", "q">>),
     Str(<<"e", "x", "l", "3">>), Str(<<"e", "x", "l", "2">>), Str(<<"f", "p", "8">>),
     Str(<<"m", "l", "x">>), Str(<<"m", "x", "f", "p", "4">>),
     Str(<<"n", "v", "f", "p", "4">>), Str(<<"b", "n", "b", "-", "4", "b", "i", "t">>),
     Str(<<"b", "n", "b", "-", "8", "b", "i", "t">>) >>

\* The filter without toLowerCase() (ruled out by C1).
deniedCaseSensitive(repoName) == \E k \in 1..Len(DENYLIST) : includes(repoName, DENYLIST[k])

\* DENYLIST.some(keyword => name.includes(keyword)), name = repo.name.toLowerCase()
denied(repoName) ==
  LET name == toLowerCase(repoName)
  IN \E k \in 1..Len(DENYLIST) : includes(name, DENYLIST[k])

ModelType == Str(<<"m", "o", "d", "e", "l">>)
DatasetType == Str(<<"d", "a", "t", "a", "s", "e", "t">>)
SpaceType == Str(<<"s", "p", "a", "c", "e">>)

\* colors[repo.type] || 0x808080
colorOf(type) ==
  IF type = ModelType THEN 16752896          \* 0xFF9D00
  ELSE IF type = DatasetType THEN 53759      \* 0x00D1FF
  ELSE IF type = SpaceType THEN 16711790     \* 0xFF006E
  ELSE 8421504                               \* 0x808080

\* repo.type.charAt(0).toUpperCase() + repo.type.slice(1)
capitalize(type) ==
  IF type = <<>> THEN <<>> ELSE <<UpperUnit(type[1])>> \o SubSeq(type, 2, Len(type))

Field(name, value) == [name |-> name, value |-> value, inline |-> TRUE]

\* `if (env.HF_WEBHOOK_SECRET)`: set and not the empty string.
Truthy(v) == ~v.null /\ v.str # <<>>

\* A catch block that answers 500 (ruled out by C2).
RespondError(code, caught) ==
  /\ pc' = "done"
  /\ status' = IF caught THEN 500 ELSE code
  /\ failed' = caught

\* The Response is returned: the handling of the request is over.
Respond(code, caught) ==
  /\ pc' = "done"
  /\ status' = code
  /\ failed' = caught

\* The event filter with `||` for `&&` (ruled out by C10).
FetchEitherEvent(req) ==
  /\ pc = "idle"
  /\ request' = req
  /\ UNCHANGED <<secret, model_info, readme, posted, cleanVars, abbrevVars>>
  /\ IF req.method # "POST" THEN calls' = <<>> /\ Respond(405, FALSE)
     ELSE IF Truthy(secret) /\ req.header # secret THEN calls' = <<>> /\ Respond(401, FALSE)
     ELSE IF req.body.kind = "invalid" THEN calls' = <<>> /\ Respond(200, TRUE)
     ELSE IF req.body.kind = "noEvent" THEN calls' = <<>> /\ Respond(200, TRUE)
     ELSE IF req.body.kind = "noRepo" THEN calls' = <<>> /\ Respond(200, TRUE)
     ELSE IF ~(req.body.scope = "repo" \/ req.body.action = "create")
       THEN calls' = <<>> /\ Respond(200, FALSE)
     ELSE IF denied(req.body.name) THEN calls' = <<>> /\ Respond(200, FALSE)
     ELSE /\ calls' = <<"metadata">>
          /\ pc' = "awaitMetadata"
          /\ status' = 0
          /\ failed' = FALSE

\* fetch(request, env) from its entry to its first outbound call or its Response:
\* the method and secret checks, request.json(), the event filter, and
\* sendToDiscord up to `await fetch(repo.url.api)`.
Fetch(req) ==
  /\ pc = "idle"
  /\ request' = req
  /\ UNCHANGED <<secret, model_info, readme, posted, cleanVars, abbrevVars>>
  /\ IF req.method # "POST" THEN calls' = <<>> /\ Respond(405, FALSE)
     ELSE IF Truthy(secret) /\ req.header # secret THEN calls' = <<>> /\ Respond(401, FALSE)
     ELSE IF req.body.kind = "invalid" THEN calls' = <<>> /\ Respond(200, TRUE)
     ELSE IF req.body.kind = "noEvent" THEN calls' = <<>> /\ Respond(200, TRUE)
     ELSE IF req.body.kind = "noRepo" THEN calls' = <<>> /\ Respond(200, TRUE)
     ELSE IF ~(req.body.scope = "repo" /\ req.body.action = "create")
       THEN calls' = <<>> /\ Respond(200, FALSE)
     ELSE IF denied(req.body.name) THEN calls' = <<>> /\ Respond(200, FALSE)
     ELSE /\ calls' = <<"metadata">>
          /\ pc' = "awaitMetadata"
          /\ status' = 0
          /\ failed' = FALSE

\* A failed metadata fetch replaced by an empty document (ruled out by C3).
MetadataFallsBack ==
  /\ pc = "awaitMetadata"
  /\ model_info' = JObject(<<>>)
  /\ calls' = Append(calls, "readme")
  /\ pc' = "awaitReadme"
  /\ UNCHANGED <<secret, request, status, readme, posted, failed, cleanVars, abbrevVars>>

\* `await fetch(repo.url.api)` rejects, or `await model_info_res.json()` does:
\* the error reaches the catch block of fetch.
MetadataFails ==
  /\ pc = "awaitMetadata"
  /\ Respond(200, TRUE)
  /\ UNCHANGED <<secret, request, calls, model_info, readme, posted, cleanVars, abbrevVars>>

\* The metadata response parses to doc; the README GET is issued.
MetadataArrives(doc) ==
  /\ pc = "awaitMetadata"
  /\ model_info' = doc
  /\ calls' = Append(calls, "readme")
  /\ pc' = "awaitReadme"
  /\ UNCHANGED <<secret, request, status, readme, posted, failed, cleanVars, abbrevVars>>

\* `await fetch(.../README.md)` rejects.
ReadmeFails ==
  /\ pc = "awaitReadme"
  /\ Respond(200, TRUE)
  /\ UNCHANGED <<secret, request, calls, model_info, readme, posted, cleanVars, abbrevVars>>

\* The two optional fields pushed in the other order (ruled out by C7).
embedLicenseFirst(repo, description, info) ==
  LET typeField == <<Field("Type", capitalize(repo.type))>>
      parameters ==
        IF In("safetensors", info) /\ In("total", info.members.safetensors)
        THEN <<Field("Parameters",
                     abbreviateNumber(info.members.safetensors.members.total.num, "floor"))>>
        ELSE <<>>
      license ==
        IF In("cardData", info) /\ In("license", info.members.cardData)
        THEN <<Field("License", info.members.cardData.members.license.str)>>
        ELSE <<>>
  IN IF ~description.ok THEN [ok |-> FALSE]
     ELSE IF InThrows(info) THEN [ok |-> FALSE]
     ELSE IF In("safetensors", info) /\ InThrows(info.members.safetensors)
       THEN [ok |-> FALSE]
     ELSE IF In("cardData", info) /\ InThrows(info.members.cardData) THEN [ok |-> FALSE]
     ELSE [ok |-> TRUE, title |-> repo.name, description |-> description.str,
           color |-> colorOf(repo.type), fields |-> typeField \o license \o parameters]

\* Lines 173-202: the payload built from repo, the outcome of cleanMarkdown(readme)
\* and model_info; ok = FALSE when cleanMarkdown or an `in` throws.
embed(repo, description, info) ==
  LET typeField == <<Field("Type", capitalize(repo.type))>>
      parameters ==
        IF In("safetensors", info) /\ In("total", info.members.safetensors)
        THEN <<Field("Parameters",
                     abbreviateNumber(info.members.safetensors.members.total.num, "floor"))>>
        ELSE <<>>
      license ==
        IF In("cardData", info) /\ In("license", info.members.cardData)
        THEN <<Field("License", info.members.cardData.members.license.str)>>
        ELSE <<>>
  IN IF ~description.ok THEN [ok |-> FALSE]
     ELSE IF InThrows(info) THEN [ok |-> FALSE]
     ELSE IF In("safetensors", info) /\ InThrows(info.members.safetensors)
       THEN [ok |-> FALSE]
     ELSE IF In("cardData", info) /\ InThrows(info.members.cardData) THEN [ok |-> FALSE]
     ELSE [ok |-> TRUE, title |-> repo.name, description |-> description.str,
           color |-> colorOf(repo.type), fields |-> typeField \o parameters \o license]

discordPayload(repo, text, info) == embed(repo, cleanMarkdown(text), info)

\* Lines 204-210: the payload is POSTed to the webhook, unless building it threw.
Post(payload) ==
  IF payload.ok
  THEN /\ calls' = Append(calls, "webhook")
       /\ posted' = [sent |-> TRUE, embed |-> payload]
       /\ pc' = "awaitWebhook"
       /\ UNCHANGED <<status, failed>>
  ELSE /\ Respond(200, TRUE)
       /\ UNCHANGED <<calls, posted>>

\* The README response arrives: text is (status === 200 ? await text() : null); the
\* payload is built and, unless that throws, POSTed to the webhook.
ReadmeArrives(text) ==
  /\ pc = "awaitReadme"
  /\ readme' = [fetched |-> TRUE, text |-> text]
  /\ Post(discordPayload(request.body, text, model_info))
  /\ UNCHANGED <<secret, request, model_info, cleanVars, abbrevVars>>

\* The webhook POST settles: ok is response.ok; a rejected fetch and `!response.ok`
\* both end in the catch block.
WebhookSettles(ok) ==
  /\ pc = "awaitWebhook"
  /\ Respond(200, ~ok)
  /\ UNCHANGED <<secret, request, calls, model_info, readme, posted, cleanVars, abbrevVars>>

(***************************************************************************)
(* The worker handling one request (requests share no state: the module    *)
(* keeps none between calls of fetch)                                      *)
(***************************************************************************)

\* Longest repository name of the exhaustively enumerated names.
MaxNameLen == 3

NameAlphabet == {Ord("a"), Ord("w"), Ord("Q")}

ShortNames == UNION {[1..n -> NameAlphabet] : n \in 0..MaxNameLen}

SampleNames ==
  { Str(<<"a", "c", "m", "e", "/", "m", "o", "d", "e", "l", "-", "g", "g", "u", "f">>),
    Str(<<"a", "c", "m", "e", "/", "s", "m", "a", "l", "l", "-", "m", "o", "d", "e", "l">>),
    Str(<<"T", "B", "/", "L", "-", "G", "P", "T", "Q">>),
    Str(<<"u", "/", "x", "-", "B", "n", "B", "-", "4", "b", "i", "t">>),
    Str(<<"u", "/", "m", "-", "F", "P", "8">>),
    Str(<<"M", "L", "X", "-", "c", "/", "m">>),
    Str(<<"u", "/", "n", "v", "f", "p", "-", "4">>) }

Names == ShortNames \cup SampleNames

\* A repo type without a colour of its own.
WidgetType == Str(<<"w", "i", "d", "g", "e", "t">>)

Secrets == {Str(<<"s">>), Str(<<"x">>)}

\* Every name as a model, the sample names as a dataset and a widget too.
Payloads ==
  [kind : {"payload"}, scope : {"repo", "discussion"}, action : {"create", "update"},
   name : Names, type : {ModelType}]
    \cup [kind : {"payload"}, scope : {"repo", "discussion"}, action : {"create", "update"},
          name : SampleNames, type : {DatasetType, WidgetType}]

\* A body that is not JSON, a JSON body without `event`, a repo create event
\* without `repo`, and the payloads.
Bodies == {[kind |-> "invalid"], [kind |-> "noEvent"], [kind |-> "noRepo"]} \cup Payloads

Requests ==
  [method : {"POST", "GET"}, header : {Null} \cup {Some(x) : x \in Secrets}, body : Bodies]

\* 7000000000
SevenBillion == ToNumber(TimesPow1000(<<7>>, 3))

SafetensorsValues ==
  { JNull, JObject(<<>>), JObject("total" :> JNumber(SevenBillion)) }
CardDataValues ==
  { JString(Str(<<"x">>)), JObject(<<>>),
    JObject("license" :> JString(Str(<<"m", "i", "t">>))) }

\* The documents the metadata endpoint may answer with.
Documents ==
  {JNull, JString(Str(<<"x">>)), JObject(<<>>)}
    \cup {JObject("safetensors" :> st) : st \in SafetensorsValues}
    \cup {JObject("cardData" :> cd) : cd \in CardDataValues}
    \cup {JObject(("safetensors" :> st) @@ ("cardData" :> cd)) :
            st \in SafetensorsValues, cd \in CardDataValues}

\* The README bodies served with status 200.
ReadmeTexts ==
  { Str(<<"#", " ", "T", "\n", "h", "i", " ", "<", "b", ">", "x", "<", "/", "b", ">">>),
    Str(<<"&", "#", "x", "1", "1", "0", "0", "0", "0", ";">>) }

Init ==
  /\ secret \in {Null, Some(<<>>)} \cup {Some(x) : x \in {Str(<<"s">>)}}
  /\ pc = "idle" /\ request = NoRequest /\ status = 0 /\ calls = <<>>
  /\ model_info = JNull /\ readme = NoReadme /\ posted = NoPayload /\ failed = FALSE
  /\ CleanIdle /\ AbbrevIdle

Next ==
  \/ \E req \in Requests : Fetch(req)
  \/ MetadataFails
  \/ \E doc \in Documents : MetadataArrives(doc)
  \/ ReadmeFails
  \/ \E text \in {Null} \cup {Some(t) : t \in ReadmeTexts} : ReadmeArrives(text)
  \/ \E ok \in BOOLEAN : WebhookSettles(ok)

Spec == Init /\ [][Next]_vars

(***************************************************************************)
(* cleanMarkdown as a pure function: the inputs it is applied to           *)
(***************************************************************************)

\* Longest string of the exhaustively enumerated inputs.
MaxShort == 3
\* Long inputs have SliceEnd - Slack .. SliceEnd + Slack filler characters.
Slack == 2

ShortAlphabet == {Ord("a"), Ord(" "), Ord("\n"), Ord("<"), Ord(">"), Ord("#"), Ord("&")}

ShortInputs == UNION {[1..n -> ShortAlphabet] : n \in 0..MaxShort}

SampleInputs ==
  { Str(<<"-", "-", "-", "\n", "t", "i", "t", "l", "e", ":", " ", "x", "\n", "-", "-", "-",
          "\n", "B", "o", "d", "y", " ", "t", "e", "x", "t">>),
    Str(<<"a", " ", "<", "t", "a", "b", "l", "e", ">", "<", "t", "r", ">", "r", "<", "/",
          "t", "r", ">", "<", "/", "T", "A", "B", "L", "E", ">", " ", "b">>),
    Str(<<"<", "i", "m", "g", " ", "s", "r", "c", "=", "x", ">", "h", "i", "<", "b", "r",
          "/", ">">>),
    Str(<<"T", "i", "t", "l", "e", "\n", "=", "=", "=", "\n", "t", "e", "x", "t">>),
    Str(<<"!", "[", "a", "l", "t", "]", "(", "u", ")", "x">>),
    Str(<<"|", " ", "a", " ", "|", "\n", "y">>),
    Str(<<"a", "&", "n", "b", "s", "p", ";", "&", "a", "m", "p", ";", "l", "t", ";",
          "&", "g", "t", ";">>),
    Str(<<"&", "#", "x", "1", "F", "6", "0", "0", ";", "&", "#", "6", "5", ";">>),
    Str(<<"&", "#", "x", "1", "1", "0", "0", "0", "0", ";">>),
    Str(<<"&", "#", "1", "1", "1", "4", "1", "1", "2", ";">>),
    Str(<<"a", " ", "\t", "\n", "\n", "\n", "\n", "b">>) }

Filler(n) == [i \in 1..n |-> Ord("a")]

LongPrefixes ==
  { <<>>, Str(<<"#", " ">>), Str(<<"<">>), Str(<<"<", "b", ">">>), Str(<<" ", " ">>),
    Str(<<"&", "a", "m", "p", ";">>), Str(<<"-", "-", "-", "\n">>) }

LongSuffixes == { <<>>, Str(<<">">>), Str(<<"\n", "-", "-", "-", "\n", "b">>) }

LongInputs ==
  { p \o Filler(n) \o q :
      p \in LongPrefixes, n \in (SliceEnd - Slack)..(SliceEnd + Slack), q \in LongSuffixes }

CleanInputs ==
  {Null} \cup {Some(s) : s \in ShortInputs \cup SampleInputs \cup LongInputs}

InitClean == md \in CleanInputs /\ cleaned = Pending /\ HandlerIdle /\ AbbrevIdle

\* One call of cleanMarkdown(md).
CallCleanMarkdown ==
  /\ cleaned = Pending
  /\ cleaned' = cleanMarkdown(md)
  /\ UNCHANGED <<md, handlerVars, abbrevVars>>

NextClean == CallCleanMarkdown

SpecClean == InitClean /\ [][NextClean]_vars

(***************************************************************************)
(* abbreviateNumber as a pure function: the inputs it is applied to        *)
(***************************************************************************)

\* Inputs are (c * 1000 + r) * 1000^k + d for c up to MaxCoef, k up to MaxPow.
MaxCoef == 9
MaxPow == 4
\* and the MaxBig + 1 integers (BigCoef + i) * 10^12, which lie far above 2^53.
MaxBig == 7

AbbrevNaturals ==
  { MulAdd(TimesPow1000(MulAdd(<<c>>, 1000, r), k), 1, d) :
      c \in 1..MaxCoef, r \in {0, 1, 499, 500, 999}, k \in 0..MaxPow, d \in {0, 1} }
    \cup { MulAdd(<<>>, 1, v) : v \in {0, 1, 999, 1000, 1001} }

BigCoef == Decimal(<<7, 2, 0, 5, 7, 5, 9, 5>>)

BigNaturals == { TimesPow1000(MulAdd(BigCoef, 1, i), 4) : i \in 0..MaxBig }

InitAbbrev ==
  /\ num \in {ToNumber(x) : x \in AbbrevNaturals \cup BigNaturals}
  /\ round \in {"floor", "round"}
  /\ abbreviated = <<>>
  /\ HandlerIdle /\ CleanIdle

\* One call of abbreviateNumber(num, round).
CallAbbreviateNumber ==
  /\ abbreviated = <<>>
  /\ abbreviated' = abbreviateNumber(num, round)
  /\ UNCHANGED <<num, round, handlerVars, cleanVars>>

NextAbbrev == CallAbbreviateNumber

SpecAbbrev == InitAbbrev /\ [][NextAbbrev]_vars

(***************************************************************************)
(* The claims                                                              *)
(***************************************************************************)

\* The secret check applies: HF_WEBHOOK_SECRET is set to a non-empty string.
SecretConfigured == ~secret.null /\ secret.str # <<>>

\* The request passes the secret check.
SecretAccepted == SecretConfigured => request.header = secret

\* The body parsed to a repo create event that names a repo.
RepoCreate ==
  /\ request.body.kind = "payload"
  /\ request.body.scope = "repo"
  /\ request.body.action = "create"

\* The request reached sendToDiscord with a repo to filter.
PassedGates == request.method = "POST" /\ SecretAccepted /\ RepoCreate

LowerAscii(c) == IF c \in 65..90 THEN c + 32 ELSE c

\* Some DENYLIST keyword occurs in name, letter case ignored.
ContainsKeyword(name) ==
  \E k \in 1..Len(DENYLIST) :
    \E i \in 1..(Len(name) - Len(DENYLIST[k]) + 1) :
      \A j \in 1..Len(DENYLIST[k]) : LowerAscii(name[i + j - 1]) = DENYLIST[k][j]

\* C1: for a repo create event handled by sendToDiscord, a name containing a
\* DENYLIST keyword in any letter case leads to no outbound call and no
\* notification, and a name containing none (the empty name too) leads to the
\* metadata GET as the first call.
C1_DenylistGate ==
  (pc # "idle" /\ PassedGates) =>
    IF ContainsKeyword(request.body.name)
    THEN calls = <<>> /\ ~posted.sent /\ pc = "done"
    ELSE calls # <<>> /\ Head(calls) = "metadata"

\* A name with a keyword spelled with a capital letter was filtered out.
C1_Witness ==
  /\ pc = "done" /\ PassedGates /\ status = 200 /\ calls = <<>>
  /\ ContainsKeyword(request.body.name)
  /\ \E i \in 1..Len(request.body.name) : request.body.name[i] \in 65..90

\* C2: a POST request that passes the secret check is answered with status 200
\* and with nothing else, whatever happened downstream.
C2_AlwaysAcknowledged ==
  (pc # "idle" /\ request.method = "POST" /\ SecretAccepted) =>
    status = (IF pc = "done" THEN 200 ELSE 0)

\* The webhook answered the POST with a non-success status; the request got its 200.
C2_Witness == pc = "done" /\ status = 200 /\ failed /\ posted.sent

AtMostOnce(cs) == \A i, j \in 1..Len(cs) : cs[i] = cs[j] => i = j

\* C3: a failed metadata fetch ends the handling of the request with the metadata
\* GET as the only call and no webhook POST; once the Response is returned no
\* call follows; and no call is ever issued twice for one request.
C3_MetadataFailureIsFinal ==
  [][ /\ MetadataFails => (pc' = "done" /\ calls' = <<"metadata">> /\ ~posted'.sent)
      /\ pc = "done" => calls' = calls
      /\ AtMostOnce(calls') ]_vars

\* The metadata fetch failed: one call, no POST, and the request acknowledged.
C3_Witness ==
  pc = "done" /\ failed /\ calls = <<"metadata">> /\ ~posted.sent /\ status = 200

\* info has a property a whose value is an object with a property b.
Exposes(info, a, b) ==
  /\ info.kind = "object"
  /\ a \in DOMAIN info.members
  /\ info.members[a].kind = "object"
  /\ b \in DOMAIN info.members[a].members

FieldNames(fields) == [i \in 1..Len(fields) |-> fields[i].name]

\* The field names the metadata document calls for.
ExpectedFieldNames(info) ==
  <<"Type">>
    \o (IF Exposes(info, "safetensors", "total") THEN <<"Parameters">> ELSE <<>>)
    \o (IF Exposes(info, "cardData", "license") THEN <<"License">> ELSE <<>>)

\* C4: when the metadata was parsed and the README response has a status other
\* than 200 (readme is null), a notification is POSTed whose description is "..."
\* and whose fields are those the metadata calls for.
C4_AbsentReadmeStillNotifies ==
  (readme.fetched /\ readme.text = Null) =>
    /\ posted.sent
    /\ posted.embed.description = <<46, 46, 46>>
    /\ FieldNames(posted.embed.fields) = ExpectedFieldNames(model_info)

EndsWithEllipsis(s) == Len(s) >= 3 /\ SubSeq(s, Len(s) - 2, Len(s)) = <<46, 46, 46>>

\* C5: what cleanMarkdown returns has at most 1024 code units and ends with "...",
\* for every string and for null.
C5_BoundedWithSuffix ==
  cleaned.ok => (Len(cleaned.str) <= 1024 /\ EndsWithEllipsis(cleaned.str))

\* A text longer than the cap was cut to 1024 code units.
C5_Witness ==
  /\ cleaned.ok /\ ~md.null /\ Len(md.str) > 1024
  /\ Len(cleaned.str) = 1024 /\ EndsWithEllipsis(cleaned.str)

\* C6 as stated: an input of at least 1021 characters gives an output of exactly
\* 1024 characters.
C6_LongInputGivesFullLength ==
  (cleaned.ok /\ ~md.null /\ Len(md.str) >= 1021) => Len(cleaned.str) = 1024

\* C6 amended: when the text left after the removal steps and the trim has at
\* least 1021 characters the output has exactly 1024; otherwise the output is
\* that whole text and the suffix, three characters longer than it.
C6_LongTextGivesFullLength ==
  cleaned.ok =>
    LET left == Len(stripMarkdown(md).str)
    IN Len(cleaned.str) = (IF left >= 1021 THEN 1024 ELSE left + 3)

\* An input that lost its markup and still filled the 1024 characters.
C6_Witness ==
  /\ cleaned.ok /\ ~md.null /\ Len(cleaned.str) = 1024
  /\ Len(stripMarkdown(md).str) >= 1021
  /\ Len(stripMarkdown(md).str) < Len(md.str)

\* C7: the fields of a notification that was POSTed are Type, then Parameters
\* iff the metadata exposes safetensors.total, then License iff it exposes
\* cardData.license, and nothing else.
C7_FieldOrder ==
  posted.sent => FieldNames(posted.embed.fields) = ExpectedFieldNames(model_info)

\* A notification with all three fields.
C7_Witness ==
  /\ posted.sent /\ Len(posted.embed.fields) = 3
  /\ Exposes(model_info, "safetensors", "total")
  /\ Exposes(model_info, "cardData", "license")

\* The unit ladder of the claim, and the result it describes: floor(x / 1000^k)
\* in exact arithmetic, k the number of j in 1..4 with x >= 1000^j.
Ladder == <<"K", "M", "B", "T">>
LadderStep(x) == Cardinality({j \in 1..Len(Ladder) : DivPow1000(x, j) # <<>>})
DecimalString(x) == LET ds == ToDigits(x) IN [i \in 1..Len(ds) |-> Ord("0") + ds[i]]
ExactAbbreviation(x) ==
  LET k == LadderStep(x)
  IN DecimalString(DivPow1000(x, k)) \o (IF k = 0 THEN <<>> ELSE Str(<<Ladder[k]>>))

\* num is an integer (every double of magnitude 2^52 or more is; below, one
\* whose fraction bits are zero).
IsInteger(n) == n.e >= 0 \/ Shl(Shr(n.m, -n.e), -n.e) = n.m

SevenAndAHalfMillion == ToNumber(Decimal(<<7, 5, 0, 0, 0, 0, 0>>))

\* C8 as stated: for every non-negative integer, floor mode returns
\* floor(value / 1000^k) and the k-th unit.
C8_FloorOfEveryInteger ==
  (abbreviated # <<>> /\ round = "floor" /\ IsInteger(num)) =>
    abbreviated = ExactAbbreviation(MathFloor(num))

\* C8 amended: for every non-negative integer below 2^53, floor mode returns
\* floor(value / 1000^k) and the k-th unit; and 7500000 gives "8M" in round mode.
C8_FloorBelowTwoTo53 ==
  /\ (abbreviated # <<>> /\ round = "floor" /\ IsInteger(num)
        /\ BitLen(MathFloor(num)) <= 53) =>
       abbreviated = ExactAbbreviation(MathFloor(num))
  /\ (abbreviated # <<>> /\ round = "round" /\ num = SevenAndAHalfMillion) =>
       abbreviated = Str(<<"8", "M">>)

\* 10^15 stayed in T units, with the number 1000.
C8_Witness ==
  /\ round = "floor" /\ num = ToNumber(TimesPow1000(<<1>>, 5))
  /\ abbreviated = Str(<<"1", "0", "0", "0", "T">>)

\* C9: whatever the parsed metadata document is, once the README response arrived
\* and its text was cleaned, the notification is POSTed, with the fields the
\* document calls for.
C9_AnyDocumentNotifies ==
  (readme.fetched /\ cleanMarkdown(readme.text).ok) =>
    (posted.sent /\ FieldNames(posted.embed.fields) = ExpectedFieldNames(model_info))

\* C10: a request that is not a POST is answered 405, one that fails the secret
\* check 401, one whose body is no repo create event 200, each without any
\* outbound call; so a call is issued only after all three gates.
C10_GatesBeforeCalls ==
  pc # "idle" =>
    IF request.method # "POST" THEN pc = "done" /\ status = 405 /\ calls = <<>>
    ELSE IF ~SecretAccepted THEN pc = "done" /\ status = 401 /\ calls = <<>>
    ELSE IF ~RepoCreate THEN pc = "done" /\ status = 200 /\ calls = <<>>
    ELSE TRUE

\* A repo create event with a wrong secret: 401 and no call.
C10_Witness ==
  /\ pc = "done" /\ status = 401 /\ calls = <<>>
  /\ request.method = "POST" /\ RepoCreate /\ ~ContainsKeyword(request.body.name)

====
